---- MODULE Spec2Model ----
(***************************************************************************)
(* A model of data_utils.py: the data_base class (the Dataset Manager)     *)
(* with the pandas / numpy / scikit-learn operations it calls, and         *)
(* apply_RFECV_mask (the Column Mask Applier).                             *)
(*                                                                         *)
(* Numbers are exact rationals <<n, d>> with d > 0; <<0, 0>> is NaN.       *)
(* A DataFrame is [index, columns, data]: the row labels, the column       *)
(* names in order, and one sequence of cells per column.  DataFrames live  *)
(* on a heap and the fields of data_base hold references, so that an       *)
(* in-place pandas operation is seen through every alias of its object.    *)
(***************************************************************************)
EXTENDS Integers, Sequences, FiniteSets, TLC

\* ------------------------------------------------------------------ bounds
\* rows of the largest table handed to the Dataset Manager
MaxRows == 5
\* assignments to raw_data in one run of the Dataset Manager
MaxLoads == 1
\* tokens of the longest mask file, columns of the widest masked table
MaxMask == 3
\* tables passed to one call of apply_RFECV_mask
MaxArgs == 2

\* --------------------------------------------------------------- constants
\* model_selection.KFold(n_splits=5, ...)
n_splits == 5

categorical_data ==
    << "Enzyme Commission Number", "Particle Size", "Particle Charge",
       "Solvent Cysteine Concentration", "Solvent NaCl Concentration" >>

columns_to_drop ==
    << "Protein Length", "Sequence", "Accession Number", "Bound Fraction" >>

\* ------------------------------------------------------------------ numbers
NaN == << 0, 0 >>

isnan(v) == v[2] = 0

Abs(n) == IF n < 0 THEN -n ELSE n

RECURSIVE GCD(_, _)
GCD(a, b) == IF b = 0 THEN a ELSE GCD(b, a % b)

\* the rational n/d in lowest terms, d # 0
Rat(n, d) ==
    LET s == IF d < 0 THEN -1 ELSE 1
        g == GCD(Abs(n), Abs(d))
    IN  << (s * n) \div g, (s * d) \div g >>

Num(k) == << k, 1 >>

\* float arithmetic: NaN propagates
Add(a, b) == IF isnan(a) \/ isnan(b) THEN NaN ELSE Rat(a[1] * b[2] + b[1] * a[2], a[2] * b[2])

Sub(a, b) == IF isnan(a) \/ isnan(b) THEN NaN ELSE Rat(a[1] * b[2] - b[1] * a[2], a[2] * b[2])

\* a / b for b a non-zero number
Div(a, b) == IF isnan(a) \/ isnan(b) THEN NaN ELSE Rat(a[1] * b[2], a[2] * b[1])

Less(a, b) == a[1] * b[2] < b[1] * a[2]

\* ---------------------------------------------------------------- sequences
Range(s) == { s[i] : i \in DOMAIN s }

RECURSIVE SeqSum(_)
SeqSum(s) == IF s = << >> THEN Num(0) ELSE Add(s[1], SeqSum(Tail(s)))

\* the elements of s that satisfy Keep, in order
SelectIdx(s, keep) ==
    LET RECURSIVE go(_)
        go(i) == IF i > Len(s) THEN << >>
                 ELSE IF i \in keep THEN << s[i] >> \o go(i + 1) ELSE go(i + 1)
    IN  go(1)

\* a finite set of integers as an ascending sequence
RECURSIVE SortInts(_)
SortInts(S) ==
    IF S = {} THEN << >>
    ELSE LET m == CHOOSE x \in S : \A y \in S : x <= y
         IN  << m >> \o SortInts(S \ {m})

\* first position of x in s, 0 if absent
PosOf(s, x) == IF x \in Range(s) THEN CHOOSE i \in DOMAIN s : s[i] = x /\ \A j \in 1 .. (i - 1) : s[j] # x ELSE 0

\* --------------------------------------------------- pandas: Series, DataFrame
RangeIndex(n) == [ i \in 1 .. n |-> i - 1 ]

NRows(df) == Len(df.index)

\* df[column]: the column as a Series carrying the frame's row labels
GetColumn(df, column) == [ index |-> df.index, values |-> df.data[column] ]

\* df.drop(column, 1) on a frame that has the column: a new frame without it
DropColumn(df, column) ==
    LET keep == { i \in DOMAIN df.columns : df.columns[i] # column }
        cols == SelectIdx(df.columns, keep)
    IN  [ index |-> df.index, columns |-> cols,
          data |-> [ c \in Range(cols) |-> df.data[c] ] ]

\* df.iloc[list(positions)] for 0-based positions: the rows keep their labels
ILoc(df, positions) ==
    LET pick(s) == [ k \in 1 .. Len(positions) |-> s[positions[k] + 1] ]
    IN  [ index |-> pick(df.index), columns |-> df.columns,
          data |-> [ c \in Range(df.columns) |-> pick(df.data[c]) ] ]

\* the categories of a column: its distinct non-missing values, ascending
Categories(values) ==
    LET present == { v \in Range(values) : ~ isnan(v) }
        RECURSIVE asc(_)
        asc(S) == IF S = {} THEN << >>
                  ELSE LET m == CHOOSE x \in S : \A y \in S : x = y \/ Less(x, y)
                       IN  << m >> \o asc(S \ {m})
    IN  asc(present)

\* the name pandas gives an indicator column: "<prefix>_<value>"
DummyName(prefix, v) == prefix \o "_" \o ToString(v[1])

\* pd.get_dummies(series, prefix=prefix): one 0/1 column per category
get_dummies(series, prefix) ==
    LET cats == Categories(series.values)
        cols == [ k \in DOMAIN cats |-> DummyName(prefix, cats[k]) ]
    IN  [ index |-> series.index, columns |-> cols,
          data |-> [ c \in Range(cols) |->
                       [ i \in DOMAIN series.values |->
                           IF series.values[i] = cats[PosOf(cols, c)] THEN Num(1) ELSE Num(0) ] ] ]

\* pd.concat([a, b], axis=1) of two frames with the same row labels
ConcatColumns(a, b) ==
    [ index |-> a.index, columns |-> a.columns \o b.columns,
      data |-> [ c \in Range(a.columns) \cup Range(b.columns) |->
                   IF c \in Range(a.columns) THEN a.data[c] ELSE b.data[c] ] ]

\* series.mean(): the mean of the present values, NaN if there is none
SeriesMean(values) ==
    LET present == SelectIdx(values, { i \in DOMAIN values : ~ isnan(values[i]) })
    IN  IF present = << >> THEN NaN ELSE Div(SeqSum(present), Num(Len(present)))

\* series.fillna(value): a new sequence, the series itself is not changed
fillna(values, value) == [ i \in DOMAIN values |-> IF isnan(values[i]) THEN value ELSE values[i] ]

\* the loop of fill_nan: count and total of the entries that are not NaN
FillCount(values) == Cardinality({ i \in DOMAIN values : ~ isnan(values[i]) })

FillTotal(values) == SeqSum(SelectIdx(values, { i \in DOMAIN values : ~ isnan(values[i]) }))

\* preprocessing.MinMaxScaler().fit_transform on one column: NaN is ignored
\* by the fit and kept by the transform, a constant column is scaled by 1
MinMaxColumn(values) ==
    LET present == { v \in Range(values) : ~ isnan(v) }
        lo == CHOOSE x \in present : \A y \in present : x = y \/ Less(x, y)
        hi == CHOOSE x \in present : \A y \in present : x = y \/ Less(y, x)
        span == IF lo = hi THEN Num(1) ELSE Sub(hi, lo)
    IN  IF present = {} THEN values
        ELSE [ i \in DOMAIN values |-> Div(Sub(values[i], lo), span) ]

\* the row labels of pd.concat([labels, data], axis=1): the labels' own index
\* when both agree, else their union, which pandas sorts or keeps in order
\* of appearance depending on its version
UnionIndex(left, right, sorted) ==
    IF left = right THEN left
    ELSE IF sorted THEN SortInts(Range(left) \cup Range(right))
    ELSE left \o SelectIdx(right, { i \in DOMAIN right : right[i] \notin Range(left) })

\* a column reindexed to new row labels: NaN where the label is not its own
Reindex(index, values, newIndex) ==
    [ k \in DOMAIN newIndex |->
        IF newIndex[k] \in Range(index) THEN values[PosOf(index, newIndex[k])] ELSE NaN ]

\* normalize_and_reshape, for labels with distinct row labels
normalize_and_reshape_frame(data, labels, sorted) ==
    LET n == NRows(data)
        norm == [ c \in Range(data.columns) |-> MinMaxColumn(data.data[c]) ]
        idx == UnionIndex(labels.index, RangeIndex(n), sorted)
        cols == << "Accession Number" >> \o data.columns
    IN  [ index |-> RangeIndex(Len(idx)), columns |-> cols,
          data |-> [ c \in Range(cols) |->
                       IF c = "Accession Number"
                       THEN Reindex(labels.index, labels.values, idx)
                       ELSE Reindex(RangeIndex(n), norm[c], idx) ] ]

\* ------------------------------------------------------- values and the heap
\* What a field of data_base, a local or an argument can hold: None, a
\* reference to a DataFrame on the heap, a str, a numpy array or a Series.
None == [ kind |-> "None", ref |-> 0, str |-> "", values |-> << >> ]

Frame(r) == [ kind |-> "DataFrame", ref |-> r, str |-> "", values |-> << >> ]

Str(s) == [ kind |-> "str", ref |-> 0, str |-> s, values |-> << >> ]

NdArray(v) == [ kind |-> "ndarray", ref |-> 0, str |-> "", values |-> v ]

SeriesOf(v) == [ kind |-> "Series", ref |-> 0, str |-> "", values |-> v ]

Fields ==
    << "_raw_data", "_clean_X_data", "_target", "_X_train", "_Y_train", "_X_test",
       "_Y_test", "_test_accession_numbers", "_original", "_predict" >>

\* data_base.__init__: every field is None; no DataFrame exists yet
NewDataBase ==
    [ _raw_data |-> None, _clean_X_data |-> None, _target |-> None, _X_train |-> None,
      _Y_train |-> None, _X_test |-> None, _Y_test |-> None,
      _test_accession_numbers |-> None, _original |-> None, _predict |-> None,
      heap |-> << >> ]

\* a new DataFrame object: the heap grows, the reference is its position
Alloc(db, table) == [ db EXCEPT !.heap = Append(@, table) ]

NewRef(db) == Len(db.heap) + 1

\* the DataFrame a value refers to
Deref(db, v) == db.heap[v.ref]

\* Objects no field refers to any more are collected and the rest renumbered
\* in order of creation, so that a state is the fields and what they reach.
Collect(db) ==
    LET live == { db[f].ref : f \in { g \in Range(Fields) : db[g].kind = "DataFrame" } }
        rank(r) == Cardinality({ q \in live : q <= r })
        order == SortInts(live)
        move(v) == IF v.kind = "DataFrame" THEN Frame(rank(v.ref)) ELSE v
    IN  [ f \in DOMAIN db |->
            IF f = "heap" THEN [ k \in DOMAIN order |-> db.heap[order[k]] ] ELSE move(db[f]) ]

\* ------------------------------------------------------------ the inputs
\* The columns of the database file: the identifier, the columns clean drops,
\* the five categorical attributes, two numeric features and the target.
RawColumns ==
    << "Accession Number", "Sequence", "Protein Length" >> \o categorical_data \o
    << "Protein Weight", "Protein Abundance", "Bound Fraction" >>

\* Three kinds of record; the second misses its abundance and its target.
RecordKinds ==
    << [ c \in Range(RawColumns) |->
           CASE c = "Sequence" -> Num(1) [] c = "Protein Length" -> Num(10)
             [] c = "Enzyme Commission Number" -> Num(1) [] c = "Particle Size" -> Num(10)
             [] c = "Particle Charge" -> Num(0) [] c = "Solvent Cysteine Concentration" -> Num(0)
             [] c = "Solvent NaCl Concentration" -> Num(0) [] c = "Protein Weight" -> Num(5)
             [] c = "Protein Abundance" -> Num(2) [] c = "Bound Fraction" -> Rat(1, 4)
             [] OTHER -> NaN ],
       [ c \in Range(RawColumns) |->
           CASE c = "Sequence" -> Num(2) [] c = "Protein Length" -> Num(20)
             [] c = "Enzyme Commission Number" -> Num(2) [] c = "Particle Size" -> Num(100)
             [] c = "Particle Charge" -> Num(1) [] c = "Solvent Cysteine Concentration" -> Num(1)
             [] c = "Solvent NaCl Concentration" -> Num(0) [] c = "Protein Weight" -> Num(7)
             [] c = "Protein Abundance" -> NaN [] c = "Bound Fraction" -> NaN
             [] OTHER -> NaN ],
       [ c \in Range(RawColumns) |->
           CASE c = "Sequence" -> Num(3) [] c = "Protein Length" -> Num(30)
             [] c = "Enzyme Commission Number" -> Num(1) [] c = "Particle Size" -> Num(10)
             [] c = "Particle Charge" -> Num(1) [] c = "Solvent Cysteine Concentration" -> Num(0)
             [] c = "Solvent NaCl Concentration" -> Num(1) [] c = "Protein Weight" -> Num(7)
             [] c = "Protein Abundance" -> Num(4) [] c = "Bound Fraction" -> Rat(3, 4)
             [] OTHER -> NaN ] >>

\* A record set of n rows with the given row labels: row i is of kind
\* (i - 1 + first) mod 3 and has the accession number 100 + i.
RecordSet(n, first, index) ==
    [ index |-> index, columns |-> RawColumns,
      data |-> [ c \in Range(RawColumns) |->
                   [ i \in 1 .. n |->
                       IF c = "Accession Number" THEN Num(100 + i)
                       ELSE RecordKinds[((i - 1 + first) % Len(RecordKinds)) + 1][c] ] ] ]

\* The csv files that exist; pd.read_csv labels the rows 0 .. n-1.
FileSystem ==
    [ path \in { "database.csv", "user.csv", "blank.csv" } |->
        CASE path = "database.csv" -> RecordSet(MaxRows, 0, RangeIndex(MaxRows))
          [] path = "user.csv" -> RecordSet(2, 0, RangeIndex(2))
          [] OTHER -> RecordSet(1, 1, RangeIndex(1)) ]

\* os.path.isfile
isfile(path) == path \in DOMAIN FileSystem

\* strings a caller may pass as a path: the files, and a name of no file
Paths == DOMAIN FileSystem \cup { "missing.csv" }

\* The in-memory tables a caller may assign to raw_data: one with the row
\* labels n-1 .. 0 (as after a descending sort) and one with the row labels
\* 1 .. n (as after a leading row was filtered out).
Tables ==
    { RecordSet(MaxRows, 0, [ i \in 1 .. MaxRows |-> MaxRows - i ]),
      RecordSet(MaxRows - 1, 0, [ i \in 1 .. (MaxRows - 1) |-> i ]) }

\* ------------------------------------------------- data_base: the properties
\* A getter's outcome: the exception it raises ("" if none) and its value.
Returned(v) == [ exc |-> "", value |-> v ]

Raised(e) == [ exc |-> e, value |-> None ]

\* X_train without its test against None (as Y_test is written)
X_train_unchecked(db) == Returned(db._X_train)

\* the getters that test their field against None
X_train(db) == IF db._X_train.kind = "None" THEN Raised("ValueError") ELSE Returned(db._X_train)

X_test(db) == IF db._X_test.kind = "None" THEN Raised("ValueError") ELSE Returned(db._X_test)

Y_train(db) == IF db._Y_train.kind = "None" THEN Raised("ValueError") ELSE Returned(db._Y_train)

raw_data(db) == IF db._raw_data.kind = "None" THEN Raised("ValueError") ELSE Returned(db._raw_data)

clean_X_data(db) ==
    IF db._clean_X_data.kind = "None" THEN Raised("ValueError") ELSE Returned(db._clean_X_data)

original(db) == IF db._original.kind = "None" THEN Raised("ValueError") ELSE Returned(db._original)

target(db) == IF db._target.kind = "None" THEN Raised("ValueError") ELSE Returned(db._target)

test_accession_numbers(db) ==
    IF db._test_accession_numbers.kind = "None" THEN Raised("ValueError")
    ELSE Returned(db._test_accession_numbers)

\* the two getters that return their field as it is
Y_test(db) == Returned(db._Y_test)

predict(db) == Returned(db._predict)

\* the getter of a field, by the field's name
Getter(db, field) ==
    CASE field = "_X_train" -> X_train(db) [] field = "_X_test" -> X_test(db)
      [] field = "_Y_train" -> Y_train(db) [] field = "_Y_test" -> Y_test(db)
      [] field = "_raw_data" -> raw_data(db) [] field = "_clean_X_data" -> clean_X_data(db)
      [] field = "_original" -> original(db) [] field = "_target" -> target(db)
      [] field = "_test_accession_numbers" -> test_accession_numbers(db)
      [] OTHER -> predict(db)

\* fetch_raw_data: the file must exist; read_csv makes a new DataFrame
fetch_raw_data(db, enm_database) ==
    IF ~ isfile(enm_database) THEN [ db |-> db, exc |-> "AssertionError", value |-> None ]
    ELSE [ db |-> Alloc(db, FileSystem[enm_database]), exc |-> "", value |-> Frame(NewRef(db)) ]

\* the setters of X_train, X_test, Y_train, Y_test, raw_data and clean_X_data:
\* a str naming a file is loaded, anything else is stored as it is
SetPathOrObject(db, field, path) ==
    IF path.kind = "str" /\ isfile(path.str)
    THEN LET got == fetch_raw_data(db, path.str) IN [ got.db EXCEPT ![field] = got.value ]
    ELSE [ db EXCEPT ![field] = path ]

set_X_train(db, path) == SetPathOrObject(db, "_X_train", path)

set_X_test(db, path) == SetPathOrObject(db, "_X_test", path)

set_Y_train(db, path) == SetPathOrObject(db, "_Y_train", path)

set_Y_test(db, path) == SetPathOrObject(db, "_Y_test", path)

set_raw_data(db, enm_database) == SetPathOrObject(db, "_raw_data", enm_database)

set_clean_X_data(db, path) == SetPathOrObject(db, "_clean_X_data", path)

\* the setter of test_accession_numbers: a str naming a file is only reported
set_test_accession_numbers(db, path) ==
    IF path.kind = "str" /\ isfile(path.str) THEN db
    ELSE [ db EXCEPT !._test_accession_numbers = path ]

\* the setter of a field, by the field's name
Setter(db, field, value) ==
    CASE field = "_X_train" -> set_X_train(db, value) [] field = "_X_test" -> set_X_test(db, value)
      [] field = "_Y_train" -> set_Y_train(db, value) [] field = "_Y_test" -> set_Y_test(db, value)
      [] field = "_raw_data" -> set_raw_data(db, value)
      [] field = "_clean_X_data" -> set_clean_X_data(db, value)
      [] OTHER -> set_test_accession_numbers(db, value)

\* ------------------------------------------------- the helpers, on the heap
\* A call in progress: the object with its heap, the exception that ended the
\* call ("" while it runs), the value of the expression being evaluated
\* (data), the local table user_data (local) and the identifier labels.
\* Every step below leaves a call that has raised as it is.
Call(db) ==
    [ db |-> db, exc |-> "", data |-> None, local |-> None,
      labels |-> [ index |-> << >>, values |-> << >> ] ]

Raise(c, e) == [ c EXCEPT !.exc = e ]

\* what reading self.<field> gives: the getter's exception or its value
LoadGot(c, got) == IF got.exc # "" THEN Raise(c, got.exc) ELSE [ c EXCEPT !.data = got.value ]

\* evaluate self.<field>
Load(c, field) == IF c.exc # "" THEN c ELSE LoadGot(c, Getter(c.db, field))

\* self.<field> = <the value just evaluated>
Store(c, field) == IF c.exc # "" THEN c ELSE [ c EXCEPT !.db = Setter(c.db, field, c.data) ]

\* user_data = <the value just evaluated>, and user_data as an expression
SaveLocal(c) == IF c.exc # "" THEN c ELSE [ c EXCEPT !.local = c.data ]

LoadLocal(c) == IF c.exc # "" THEN c ELSE [ c EXCEPT !.data = c.local ]

\* one_hot_encode adding the indicator columns to its argument and dropping
\* the category from it, in place
one_hot_encode_inplace(c, category) ==
    IF c.exc # "" THEN c
    ELSE IF c.data.kind # "DataFrame" THEN Raise(c, "AssertionError")
    ELSE IF category \notin Range(Deref(c.db, c.data).columns) THEN Raise(c, "KeyError")
    ELSE [ c EXCEPT !.db.heap[c.data.ref] =
                        DropColumn(ConcatColumns(@, get_dummies(GetColumn(@, category), category)),
                                   category) ]

\* one_hot_encode of the value just evaluated: the result is the new frame
\* pd.concat makes; the in-place drop acts on that new frame, never on the
\* argument
one_hot_encode(c, category) ==
    IF c.exc # "" THEN c
    ELSE IF c.data.kind # "DataFrame" THEN Raise(c, "AssertionError")
    ELSE IF category \notin Range(Deref(c.db, c.data).columns) THEN Raise(c, "KeyError")
    ELSE [ c EXCEPT !.db = [ Alloc(c.db, ConcatColumns(Deref(c.db, c.data),
                                          get_dummies(GetColumn(Deref(c.db, c.data), category), category)))
                             EXCEPT !.heap[NewRef(c.db)] = DropColumn(@, category) ],
                    !.data = Frame(NewRef(c.db)) ]

\* <the value just evaluated>.drop(column, 1): a new frame
drop(c, column) ==
    IF c.exc # "" THEN c
    ELSE IF c.data.kind # "DataFrame" THEN Raise(c, "AttributeError")
    ELSE IF column \notin Range(Deref(c.db, c.data).columns) THEN Raise(c, "KeyError")
    ELSE [ c EXCEPT !.db = Alloc(c.db, DropColumn(Deref(c.db, c.data), column)),
                    !.data = Frame(NewRef(c.db)) ]

\* data[column] = data[column].fillna(total/count): the frame itself changes
fill_nan_assign(c, column, values) ==
    IF FillCount(values) = 0 THEN Raise(c, "ZeroDivisionError")
    ELSE [ c EXCEPT !.db.heap[c.data.ref].data[column] =
                        fillna(values, Div(FillTotal(values), Num(FillCount(values)))) ]

\* fill_nan of the value just evaluated: total/count divides by zero when no
\* entry is present; the frame passed in is the frame returned
fill_nan(c, column) ==
    IF c.exc # "" THEN c
    ELSE IF c.data.kind # "DataFrame" THEN Raise(c, "AssertionError")
    ELSE fill_nan_assign(c, column, Deref(c.db, c.data).data[column])

\* normalize_and_reshape of the value just evaluated with the labels taken
\* before: a new frame; concat cannot align row labels that differ and repeat
normalize_and_reshape(c, sorted) ==
    IF c.exc # "" THEN c
    ELSE IF /\ c.labels.index # RangeIndex(NRows(Deref(c.db, c.data)))
            /\ Cardinality(Range(c.labels.index)) # Len(c.labels.index)
    THEN Raise(c, "InvalidIndexError")
    ELSE [ c EXCEPT !.db = Alloc(c.db, normalize_and_reshape_frame(Deref(c.db, c.data), c.labels, sorted)),
                    !.data = Frame(NewRef(c.db)) ]

\* <the value just evaluated>[column].to_numpy()
to_numpy(c, column) ==
    IF c.exc # "" THEN c
    ELSE IF column \notin Range(Deref(c.db, c.data).columns) THEN Raise(c, "KeyError")
    ELSE [ c EXCEPT !.data = NdArray(Deref(c.db, c.data).data[column]) ]

\* <the value just evaluated>[column], as a Series
column_of(c, column) ==
    IF c.exc # "" THEN c
    ELSE IF column \notin Range(Deref(c.db, c.data).columns) THEN Raise(c, "KeyError")
    ELSE [ c EXCEPT !.data = SeriesOf(Deref(c.db, c.data).data[column]) ]

\* accession_numbers = <the value just evaluated>['Accession Number']
take_labels(c) ==
    IF c.exc # "" THEN c
    ELSE [ c EXCEPT !.labels = GetColumn(Deref(c.db, c.data), "Accession Number") ]

\* ------------------------------------------------ data_base.clean_raw_data
\* for category in categorical_data, from the k-th on:
\*     self.clean_X_data = one_hot_encode(self.clean_X_data, category)
RECURSIVE clean_encode(_, _)
clean_encode(c, k) ==
    IF c.exc # "" \/ k > Len(categorical_data) THEN c
    ELSE clean_encode(
             Store(one_hot_encode(Load(c, "_clean_X_data"), categorical_data[k]), "_clean_X_data"),
             k + 1)

\* self.clean_X_data['Bound Fraction'].fillna(<its mean>): what the statement
\* evaluates to, a new Series; the statement does not keep it
target_fillna(c) ==
    fillna(Deref(c.db, c.db._clean_X_data).data["Bound Fraction"],
           SeriesMean(Deref(c.db, c.db._clean_X_data).data["Bound Fraction"]))

\* self._target = self.clean_X_data['Bound Fraction'].to_numpy()
set_target(c) == IF c.exc # "" THEN c ELSE [ c EXCEPT !.db._target = c.data ]

\* The imputation statement changes nothing; then the target, Y_train and the
\* identifier labels are taken from the encoded table.
clean_target(c) ==
    take_labels(Load(
        Store(Load(set_target(to_numpy(Load(c, "_clean_X_data"), "Bound Fraction")), "_target"),
              "_Y_train"),
        "_clean_X_data"))

\* for column in columns_to_drop, from the k-th on:
\*     self.clean_X_data = self.clean_X_data.drop(column, 1)
RECURSIVE clean_drop(_, _)
clean_drop(c, k) ==
    IF c.exc # "" \/ k > Len(columns_to_drop) THEN c
    ELSE clean_drop(Store(drop(Load(c, "_clean_X_data"), columns_to_drop[k]), "_clean_X_data"), k + 1)

\* self._original = self.clean_X_data
set_original(c) == IF c.exc # "" THEN c ELSE [ c EXCEPT !.db._original = c.data ]

clean_raw_data(db, sorted) ==
    Store(Load(
        Store(normalize_and_reshape(Load(
            set_original(Load(
                Store(fill_nan(Load(
                    clean_drop(clean_target(clean_encode(
                        Store(Load(Call(db), "_raw_data"), "_clean_X_data"), 1)), 1),
                    "_clean_X_data"), "Protein Abundance"), "_clean_X_data"),
                "_clean_X_data")),
            "_clean_X_data"), sorted), "_clean_X_data"),
        "_clean_X_data"), "_X_train")

\* -------------------------------------------- data_base.clean_user_test_data
\* for category in categorical_data: user_data = one_hot_encode(user_data, category)
RECURSIVE user_encode(_, _)
user_encode(c, k) ==
    IF c.exc # "" \/ k > Len(categorical_data) THEN c
    ELSE user_encode(SaveLocal(one_hot_encode(LoadLocal(c), categorical_data[k])), k + 1)

\* for column in columns_to_drop: user_data = user_data.drop(column, 1)
RECURSIVE user_drop(_, _)
user_drop(c, k) ==
    IF c.exc # "" \/ k > Len(columns_to_drop) THEN c
    ELSE user_drop(SaveLocal(drop(LoadLocal(c), columns_to_drop[k])), k + 1)

\* self.X_train = self.X_train.drop('Accession Number', 1)
\* self.X_test = self.X_test.drop('Accession Number', 1)
\* (the last two lines of clean_user_test_data and of data_split alike)
strip_identifier(c) ==
    Store(drop(Load(Store(drop(Load(c, "_X_train"), "Accession Number"), "_X_train"), "_X_test"),
               "Accession Number"),
          "_X_test")

\* with the argument user_data in c.local
clean_user_test_data(c, sorted) ==
    strip_identifier(
        Store(column_of(Load(
            Store(normalize_and_reshape(LoadLocal(SaveLocal(fill_nan(LoadLocal(
                user_drop(
                    take_labels(LoadLocal(
                        Store(to_numpy(LoadLocal(user_encode(c, 1)), "Bound Fraction"), "_Y_test"))),
                    1)), "Protein Abundance"))), sorted), "_X_test"),
            "_X_test"), "Accession Number"), "_test_accession_numbers"))

\* self._predict = self.fetch_raw_data(path)
predict_fetched(got) ==
    [ Call([ got.db EXCEPT !._predict = got.value ]) EXCEPT !.local = got.value ]

\* the setter of predict: a path naming a file is loaded into _predict and
\* cleaned at once; any other str is stored as it is
set_predict(db, path, sorted) ==
    IF isfile(path) THEN clean_user_test_data(predict_fetched(fetch_raw_data(db, path)), sorted)
    ELSE Call([ db EXCEPT !._predict = Str(path) ])

\* ------------------------------------------------------ data_base.data_split
\* KFold gives the first n % n_splits folds one sample more
FoldSize(n, k) == (n \div n_splits) + (IF k <= n % n_splits THEN 1 ELSE 0)

RECURSIVE FoldStart(_, _)
FoldStart(n, k) == IF k = 1 THEN 0 ELSE FoldStart(n, k - 1) + FoldSize(n, k - 1)

\* The k-th pair KFold(shuffle=True).split yields for the shuffled order
\* `shuffle` of 0 .. n-1: the test fold is a slice of the shuffled order, and
\* both index arrays come out ascending (they are read off a boolean mask).
TestIndex(shuffle, k) ==
    SortInts({ shuffle[i] : i \in (FoldStart(Len(shuffle), k) + 1) ..
                                  (FoldStart(Len(shuffle), k) + FoldSize(Len(shuffle), k)) })

TrainIndex(shuffle, k) == SortInts(Range(shuffle) \ Range(TestIndex(shuffle, k)))

\* array[index] on a numpy array, for indices within it
Take(values, index) == [ k \in DOMAIN index |-> values[index[k] + 1] ]

\* <the value just evaluated>.iloc[list(index)]: a new frame
iloc(c, index) ==
    IF c.exc # "" THEN c
    ELSE [ c EXCEPT !.db = Alloc(c.db, ILoc(Deref(c.db, c.data), index)),
                    !.data = Frame(NewRef(c.db)) ]

\* the two targets taken with the index arrays the wrong way round
split_targets_swapped(c, train_index, test_index) ==
    IF c.exc # "" THEN c
    ELSE IF \E i \in Range(train_index) \cup Range(test_index) : i >= Len(c.data.values)
    THEN Raise(c, "IndexError")
    ELSE [ c EXCEPT !.db = set_Y_test(set_Y_train(c.db, NdArray(Take(c.data.values, test_index))),
                                      NdArray(Take(c.data.values, train_index))) ]

\* self.Y_train, self.Y_test = self.target[train_index], self.target[test_index]
\* with the target in c.data: both sides are evaluated before either is stored
split_targets(c, train_index, test_index) ==
    IF c.exc # "" THEN c
    ELSE IF \E i \in Range(train_index) \cup Range(test_index) : i >= Len(c.data.values)
    THEN Raise(c, "IndexError")
    ELSE [ c EXCEPT !.db = set_Y_test(set_Y_train(c.db, NdArray(Take(c.data.values, train_index))),
                                      NdArray(Take(c.data.values, test_index))) ]

\* self.X_train, self.X_test = <the rows train_index>, <the rows test_index>
\* with both frames made (the second in c.data, the first right before it)
split_frames(c) ==
    IF c.exc # "" THEN c
    ELSE [ c EXCEPT !.db = set_X_test(set_X_train(c.db, Frame(c.data.ref - 1)), c.data) ]

\* one pass of the loop body, for the k-th pair
split_fold(c, shuffle, k) ==
    split_targets(
        Load(split_frames(iloc(Load(iloc(Load(c, "_clean_X_data"), TrainIndex(shuffle, k)),
                                    "_clean_X_data"),
                               TestIndex(shuffle, k))),
             "_target"),
        TrainIndex(shuffle, k), TestIndex(shuffle, k))

\* for train_index, test_index in kf.split(self.clean_X_data), from the k-th pair on
RECURSIVE split_loop(_, _, _)
split_loop(c, shuffle, k) ==
    IF c.exc # "" \/ k > n_splits THEN c
    ELSE split_loop(split_fold(c, shuffle, k), shuffle, k + 1)

\* kf.split(self.clean_X_data): KFold needs n_splits rows at least.  A str
\* (longer than n_splits characters, as every path here is) is split like an
\* array and then has no iloc.
split_begin(c) ==
    IF c.exc # "" THEN c
    ELSE IF c.data.kind # "DataFrame" THEN Raise(c, "AttributeError")
    ELSE IF NRows(Deref(c.db, c.data)) < n_splits THEN Raise(c, "ValueError")
    ELSE c

\* data_split without its assertion
split_assert_skipped(c) == c

\* assert self.predict is None
split_assert(c) == IF predict(c.db).value.kind # "None" THEN Raise(c, "AssertionError") ELSE c

\* data_split with `shuffle` the order KFold shuffles the rows into
data_split(db, shuffle) ==
    strip_identifier(
        Store(column_of(Load(
            split_loop(split_begin(Load(split_assert(Call(db)), "_clean_X_data")), shuffle, 1),
            "_X_test"), "Accession Number"), "_test_accession_numbers"))

\* Orders KFold may shuffle the rows 0 .. n-1 into: the rotations of the
\* ascending and of the descending order, so that every row can fall into
\* every fold
Shuffles(n) ==
    IF n = 0 THEN { << >> }
    ELSE { [ i \in 1 .. n |-> (i - 1 + r) % n ] : r \in 0 .. (n - 1) } \cup
         { [ i \in 1 .. n |-> (2 * n - i - r) % n ] : r \in 0 .. (n - 1) }

\* the rows KFold shuffles: none when there is no table of n_splits rows to split
SplitRows(db) ==
    IF /\ db._clean_X_data.kind = "DataFrame"
       /\ NRows(Deref(db, db._clean_X_data)) >= n_splits
    THEN NRows(Deref(db, db._clean_X_data))
    ELSE 0

\* --------------------------------------------------------- apply_RFECV_mask
\* The tokens csv.reader may find on the line of a mask file.
Tokens == { "True", "False", " False", " " }

\* str.strip, on those tokens
strip(token) == CASE token = " False" -> "False" [] token = " " -> "" [] OTHER -> token

IsBoolean(token) == strip(token) = "True" \/ strip(token) = "False"

\* remove_extra_entries deleting one trailing entry only
remove_extra_entries_once(mask) ==
    IF mask = << >> \/ IsBoolean(mask[Len(mask)]) THEN mask
    ELSE SubSeq(mask, 1, Len(mask) - 1)

\* remove_extra_entries: going from the end, entries are deleted until one
\* that strips to True or False is met
RECURSIVE remove_extra_entries(_)
remove_extra_entries(mask) ==
    IF mask = << >> \/ IsBoolean(mask[Len(mask)]) THEN mask
    ELSE remove_extra_entries(SubSeq(mask, 1, Len(mask) - 1))

\* A table here is the sequence of its column names.  A table of n columns
\* as the Dataset Manager makes them: the names differ.
Columns(n) == [ i \in 1 .. n |-> "c" \o ToString(i) ]

\* the positions whose token strips to True, gathered instead
TrueIndexes(column_mask) ==
    SelectIdx([ i \in DOMAIN column_mask |-> i - 1 ],
              { i \in DOMAIN column_mask : strip(column_mask[i]) = "True" })

\* the positions i (from 0) with column_mask[i].strip() == 'False', ascending
FalseIndexes(column_mask) ==
    SelectIdx([ i \in DOMAIN column_mask |-> i - 1 ],
              { i \in DOMAIN column_mask : strip(column_mask[i]) = "False" })

\* dataframe.drop(dataframe.columns[column_indexes], axis=1): the columns are
\* dropped by name
DropIndexes(dataframe, column_indexes) ==
    SelectIdx(dataframe,
              { i \in DOMAIN dataframe :
                  dataframe[i] \notin { dataframe[column_indexes[k] + 1] : k \in DOMAIN column_indexes } })

\* The state of the loop over args: the mask, the indexes gathered so far,
\* the tables made so far, and the failed assertion with its two lengths.
MaskLoop(column_mask) ==
    [ column_mask |-> column_mask, column_indexes |-> << >>, updated_args |-> << >>,
      exc |-> "", lengths |-> << >> ]

\* if len(column_mask) != len(list(dataframe)):
\*     column_mask = remove_extra_entries(column_mask); assert the lengths agree
mask_reconcile(m, dataframe) ==
    IF Len(m.column_mask) = Len(dataframe) THEN m
    ELSE IF Len(remove_extra_entries(m.column_mask)) = Len(dataframe)
    THEN [ m EXCEPT !.column_mask = remove_extra_entries(m.column_mask) ]
    ELSE [ m EXCEPT !.column_mask = remove_extra_entries(m.column_mask),
                    !.exc = "AssertionError",
                    !.lengths = << Len(remove_extra_entries(m.column_mask)), Len(dataframe) >> ]

\* the indexes of this pass are appended to those of the passes before
mask_gather(m) ==
    IF m.exc # "" THEN m
    ELSE [ m EXCEPT !.column_indexes = @ \o FalseIndexes(m.column_mask) ]

mask_drop(m, dataframe) ==
    IF m.exc # "" THEN m
    ELSE [ m EXCEPT !.updated_args = Append(@, DropIndexes(dataframe, m.column_indexes)) ]

\* for dataframe in args, from the k-th on
RECURSIVE mask_loop(_, _, _)
mask_loop(m, args, k) ==
    IF m.exc # "" \/ k > Len(args) THEN m
    ELSE mask_loop(mask_drop(mask_gather(mask_reconcile(m, args[k])), args[k]), args, k + 1)

\* apply_RFECV_mask(mask, *args) for a mask file holding the tokens `mask`
apply_RFECV_mask(mask, args) == mask_loop(MaskLoop(mask), args, 1)

\* the mask files and the argument lists of a call
Masks == UNION { [ 1 .. n -> Tokens ] : n \in 0 .. MaxMask }

ArgLists == UNION { [ 1 .. n -> { Columns(k) : k \in 0 .. MaxMask } ] : n \in 0 .. MaxArgs }

\* ---------------------------------------------------------------- the state
VARIABLES
    db,            \* the data_base object and the DataFrames it reaches
    loads,         \* how often raw_data was assigned
    last,          \* the last call on db: what it was, on what, and how it ended
    call,          \* a call of apply_RFECV_mask: its mask file and its tables
    applied        \* what that call came to, once it has ended

vars == << db, loads, last, call, applied >>

Outcome(op, arg, exc, ret) == [ op |-> op, arg |-> arg, exc |-> exc, ret |-> ret ]

\* the call c has ended: the object is as the call left it
Ended(c, op, arg) ==
    /\ db' = Collect(c.db)
    /\ last' = Outcome(op, arg, c.exc, "")
    /\ UNCHANGED << call, applied >>

\* a getter has ended: nothing but the outcome changes
Read(got, field) ==
    /\ last' = Outcome("get", field, got.exc, IF got.exc = "" THEN got.value.kind ELSE "")
    /\ UNCHANGED << db, loads, call, applied >>

NoCall == [ isfile |-> FALSE, mask |-> << >>, args |-> << >> ]

Pending == [ done |-> FALSE, column_mask |-> << >>, column_indexes |-> << >>,
             updated_args |-> << >>, exc |-> "", lengths |-> << >> ]

\* a new data_base, no call of apply_RFECV_mask
Init ==
    /\ db = NewDataBase
    /\ loads = 0
    /\ last = Outcome("__init__", "", "", "")
    /\ call = NoCall
    /\ applied = Pending

\* a call of apply_RFECV_mask about to be made: with a mask file and some
\* tables, or with a path that names no file and one table
InitMask ==
    /\ db = NewDataBase
    /\ loads = 0
    /\ last = Outcome("__init__", "", "", "")
    /\ \/ \E mask \in Masks, args \in ArgLists : call = [ isfile |-> TRUE, mask |-> mask, args |-> args ]
       \/ call = [ isfile |-> FALSE, mask |-> << >>, args |-> << Columns(1) >> ]
    /\ applied = Pending

\* db.raw_data = <path>
SetRawDataPath ==
    \E path \in Paths :
        /\ loads < MaxLoads
        /\ Ended(Call(set_raw_data(db, Str(path))), "raw_data=", path)
        /\ loads' = loads + 1

\* db.raw_data = <DataFrame>, a table the caller built in memory
SetRawDataTable ==
    \E table \in Tables :
        /\ loads < MaxLoads
        /\ Ended(Call(set_raw_data(Alloc(db, table), Frame(NewRef(db)))), "raw_data=", "DataFrame")
        /\ loads' = loads + 1

\* db.clean_raw_data(); whether pandas sorts the united row labels depends on
\* its version, which the code does not fix
Clean ==
    \E sorted \in BOOLEAN :
        /\ Ended(clean_raw_data(db, sorted), "clean_raw_data", "")
        /\ UNCHANGED loads

\* db.data_split()
Split ==
    \E shuffle \in Shuffles(SplitRows(db)) :
        /\ Ended(data_split(db, shuffle), "data_split", "")
        /\ UNCHANGED loads

\* db.predict = <path>; read_csv labels the rows 0 .. n-1, which are their
\* own union whether sorted or not
SetPredict ==
    \E path \in Paths :
        /\ Ended(set_predict(db, path, TRUE), "predict=", path)
        /\ UNCHANGED loads

\* reading one of the ten properties
Get == \E field \in Range(Fields) : Read(Getter(db, field), field)

\* the call of apply_RFECV_mask runs: the path must name a file
ApplyMask ==
    /\ ~ applied.done
    /\ call # NoCall
    /\ applied' = IF call.isfile
                  THEN [ done |-> TRUE ] @@ apply_RFECV_mask(call.mask, call.args)
                  ELSE [ Pending EXCEPT !.done = TRUE, !.exc = "AssertionError" ]
    /\ UNCHANGED << db, loads, last, call >>

\* the calls that act on the data_base object
Calls == SetRawDataPath \/ SetRawDataTable \/ Clean \/ Split \/ SetPredict

Next == Calls \/ Get

\* every use of the Dataset Manager
Spec == Init /\ [][Next]_vars

\* The uses of the Dataset Manager up to the first read of a property.  A
\* read changes nothing but `last`, so every state of Spec is a state of
\* SpecManager: the state before a read, or that state after the read.
NextManager ==
    \/ last.op # "get" /\ SetRawDataPath
    \/ last.op # "get" /\ SetRawDataTable
    \/ last.op # "get" /\ Clean
    \/ last.op # "get" /\ Split
    \/ last.op # "get" /\ SetPredict
    \/ last.op # "get" /\ Get

SpecManager == Init /\ [][NextManager]_vars

\* one call of the Column Mask Applier
SpecMask == InitMask /\ [][ApplyMask]_vars

\* ================================================================ the claims
\* what the fields refer to
RawFrame == Deref(db, db._raw_data)

CleanFrame == Deref(db, db._clean_X_data)

TrainFrame == Deref(db, db._X_train)

TestFrame == Deref(db, db._X_test)

IsFrame(field) == db[field].kind = "DataFrame"

\* the files whose records can be cleaned: some abundance is present
WellFormed == { path \in DOMAIN FileSystem :
                  \E v \in Range(FileSystem[path].data["Protein Abundance"]) : ~ isnan(v) }

C2_SplitRefusedInPredictMode ==
    /\ [](last.op = "data_split" /\ last.exc = "" => db._predict.kind = "None")
    /\ [][(db._predict.kind # "None" /\ last'.op = "data_split")
              => (last'.exc = "AssertionError" /\ db' = db)]_vars

\* data_split refused on a cleaned table of enough rows, after a predict
\* assignment that loaded a file
C2_Witness ==
    /\ last = Outcome("data_split", "", "AssertionError", "")
    /\ IsFrame("_predict")
    /\ IsFrame("_clean_X_data") /\ NRows(CleanFrame) >= n_splits

\* ---- C3
\* C3 as stated: whatever was called before, assigning the path of a file of
\* well-formed records to predict completes, with test features, test target
\* and test identifiers set and no identifier column in train or test features.
C3_PredictCompletesAnywhere ==
    (last.op = "predict=" /\ last.arg \in WellFormed) =>
        /\ last.exc = ""
        /\ IsFrame("_X_test") /\ db._Y_test.kind = "ndarray"
        /\ db._test_accession_numbers.kind = "Series"
        /\ IsFrame("_X_train")
        /\ "Accession Number" \notin Range(TrainFrame.columns)
        /\ "Accession Number" \notin Range(TestFrame.columns)

\* ---- C4
\* the entries of the raw target column that are missing
MissingTarget == { i \in 1 .. NRows(RawFrame) : isnan(RawFrame.data["Bound Fraction"][i]) }

\* C4 as stated: after clean on n rows of which m, 0 < m < n, miss their
\* Bound Fraction, the target has n entries, those present in the raw data
\* unchanged and those missing equal to the mean of the present ones.
C4_TargetImputed ==
    ( /\ last.op = "clean_raw_data" /\ last.exc = ""
      /\ MissingTarget # {} /\ MissingTarget # 1 .. NRows(RawFrame) ) =>
        /\ Len(db._target.values) = NRows(RawFrame)
        /\ \A i \in 1 .. NRows(RawFrame) :
               db._target.values[i] =
                   IF i \in MissingTarget
                   THEN Div(SeqSum(SelectIdx(RawFrame.data["Bound Fraction"],
                                             (1 .. NRows(RawFrame)) \ MissingTarget)),
                            Num(NRows(RawFrame) - Cardinality(MissingTarget)))
                   ELSE RawFrame.data["Bound Fraction"][i]

\* ---- C5
\* C5 as stated: after clean, from a file or from a table in memory with any
\* row labels, the clean feature set has as many rows as the raw record set.
C5_RowCountPreserved ==
    (last.op = "clean_raw_data" /\ last.exc = "") =>
        (IsFrame("_clean_X_data") /\ NRows(CleanFrame) = NRows(RawFrame))

\* ---- C6
\* C6: after a data_split that ended well on n clean rows (labelled 0 .. n-1),
\* the rows of train and test features are disjoint and are all n rows, each
\* with its features as in the clean table; train and test target are the
\* target entries of those rows, the test identifiers are those of the test
\* rows, and neither train nor test features have the identifier column.
C6_SplitPartitions ==
    (last.op = "data_split" /\ last.exc = "") =>
        LET n == NRows(CleanFrame)
            tr == TrainFrame.index
            te == TestFrame.index
            features == SelectIdx(CleanFrame.columns,
                                  { i \in DOMAIN CleanFrame.columns :
                                      CleanFrame.columns[i] # "Accession Number" })
        IN  /\ Range(tr) \cap Range(te) = {}
            /\ Range(tr) \cup Range(te) = 0 .. (n - 1)
            /\ Len(tr) + Len(te) = n
            /\ TrainFrame.columns = features /\ TestFrame.columns = features
            /\ \A c \in Range(features) :
                   /\ \A k \in DOMAIN tr : TrainFrame.data[c][k] = CleanFrame.data[c][tr[k] + 1]
                   /\ \A k \in DOMAIN te : TestFrame.data[c][k] = CleanFrame.data[c][te[k] + 1]
            /\ db._Y_train.values = [ k \in DOMAIN tr |-> db._target.values[tr[k] + 1] ]
            /\ db._Y_test.values = [ k \in DOMAIN te |-> db._target.values[te[k] + 1] ]
            /\ db._test_accession_numbers.values =
                   [ k \in DOMAIN te |-> CleanFrame.data["Accession Number"][te[k] + 1] ]

\* a data_split that ended well, with rows in both parts
C6_Witness ==
    /\ last = Outcome("data_split", "", "", "")
    /\ NRows(TestFrame) >= 1 /\ NRows(TrainFrame) > NRows(TestFrame)

\* ---- C8
\* C8 as stated: assigning to raw_data a path that names no file fails, and
\* the path is not stored as the raw record set.
C8_MissingPathRejected ==
    (last.op = "raw_data=" /\ last.arg \in Paths /\ ~ isfile(last.arg)) =>
        (last.exc # "" /\ db._raw_data.kind # "str")

\* ---- C9
\* C9: once raw_data holds a table, a call of clean_raw_data, of data_split
\* or an assignment to predict, however it ends, leaves raw_data referring to
\* a table with the same row labels, columns and values.
C9_RawDataUnchanged ==
    [][(IsFrame("_raw_data") /\ last'.op \in { "clean_raw_data", "data_split", "predict=" })
           => (db'._raw_data.kind = "DataFrame" /\ Deref(db', db'._raw_data) = RawFrame)]_vars

\* clean has run to its end on a raw table that has missing entries and its
\* categorical columns, and the clean table is another one
C9_Witness ==
    /\ last = Outcome("clean_raw_data", "", "", "")
    /\ IsFrame("_raw_data") /\ IsFrame("_clean_X_data")
    /\ MissingTarget # {}
    /\ Range(categorical_data) \subseteq Range(RawFrame.columns)
    /\ CleanFrame # RawFrame

\* ---- C7
\* the columns of a table at the positions whose token does not strip to False
KeptColumns(mask, dataframe) ==
    SelectIdx(dataframe, { i \in DOMAIN dataframe : strip(mask[i]) # "False" })

LastBoolean(mask) ==
    IF \E i \in DOMAIN mask : IsBoolean(mask[i])
    THEN CHOOSE i \in DOMAIN mask : IsBoolean(mask[i]) /\ \A j \in (i + 1) .. Len(mask) : ~ IsBoolean(mask[j])
    ELSE 0

\* reconciliation as C10 states it: trailing tokens that are not boolean go
\* one at a time until the lengths agree or a boolean token is met
RECURSIVE ReconcileUntilMatch(_, _)
ReconcileUntilMatch(mask, n) ==
    IF Len(mask) = n \/ mask = << >> \/ IsBoolean(mask[Len(mask)]) THEN mask
    ELSE ReconcileUntilMatch(SubSeq(mask, 1, Len(mask) - 1), n)

\* C10 as stated, for a call with one table: the call ends well exactly when
\* the mask so reconciled has as many tokens as the table has columns.
C10_StopsWhenLengthsMatch ==
    (applied.done /\ call.isfile /\ Len(call.args) = 1) =>
        (applied.exc = "" <=>
            Len(ReconcileUntilMatch(call.mask, Len(call.args[1]))) = Len(call.args[1]))

\* the token count the k-th table is held against: that of the file until a
\* table differs from it, from then on that of the mask cut after its last
\* boolean token
CountFor(k) ==
    IF \E j \in 1 .. k : Len(call.args[j]) # Len(call.mask)
    THEN LastBoolean(call.mask) ELSE Len(call.mask)

\* C10, amended: when the token count differs from a table's column count,
\* reconciliation removes every trailing token that is not boolean, whatever
\* the column count; the call ends well exactly when every table then has as
\* many columns as the mask has tokens, and otherwise fails on the first
\* table that has not, with the assertion naming the count of tokens left
\* and that table's column count.  A boolean prefix of p tokens followed by
\* two blanks is accepted for p columns and refused for p + 1.
C10_RemovesAllTrailing ==
    (applied.done /\ call.isfile) =>
        LET bad == { k \in DOMAIN call.args : Len(call.args[k]) # CountFor(k) }
        IN  /\ applied.exc = "" <=> bad = {}
            /\ bad # {} =>
                   LET k == CHOOSE x \in bad : \A y \in bad : x <= y
                   IN  /\ applied.exc = "AssertionError"
                       /\ applied.lengths = << LastBoolean(call.mask), Len(call.args[k]) >>
                       /\ Len(applied.updated_args) = k - 1

\* a boolean prefix followed by two blanks, held against a table with one
\* column more than the prefix: refused
C10_Witness ==
    /\ applied.done /\ call.isfile /\ Len(call.args) = 1
    /\ Len(call.mask) = LastBoolean(call.mask) + 2
    /\ LastBoolean(call.mask) >= 1
    /\ Len(call.args[1]) = LastBoolean(call.mask) + 1
    /\ applied.exc = "AssertionError"

\* ---- C11
\* what a field of the object d holds: the table it refers to, or the value
Held(d, field) == IF d[field].kind = "DataFrame" THEN Deref(d, d[field]) ELSE d[field]

\* C11 as stated: a call of clean_raw_data, of data_split or an assignment to
\* predict that ends in an exception leaves every field holding what it held
\* before the call.
C11_FailedCallChangesNothing ==
    [][(last'.op \in { "clean_raw_data", "data_split", "predict=" } /\ last'.exc # "")
           => \A k \in DOMAIN Fields : Held(db', Fields[k]) = Held(db, Fields[k])]_vars

====
